---- MODULE Spec2Model ----
(***************************************************************************)
(* State-machine model of the two pointer-control pipelines of the         *)
(* repository:                                                             *)
(*   - EyeTrackerWidget  (src/eye_widget.py):  blink detection, double-    *)
(*     blink calibration, gaze mapping, smoothing and dwell click;         *)
(*   - HandTrackerWidget / ClickController (src/hand_widget.py): pinch     *)
(*     click and scroll.                                                   *)
(*                                                                         *)
(* Units.  Times are integers in tenths of a second (time.time() read      *)
(* once per tick).  EAR values are in hundredths.  alpha is in hundredths. *)
(* Iris positions are integers on an arbitrary normalised grid (_map only  *)
(* uses ratios of differences).  Hand landmarks are normalised             *)
(* coordinates in thousandths; the scroll midpoint (y1+y2)/2 is kept       *)
(* doubled (y1+y2, i.e. in 1/2000) so that it stays an integer.            *)
(* Floating-point products are computed exactly and then truncated the     *)
(* way int() truncates.                                                    *)
(***************************************************************************)
EXTENDS Integers, Sequences, FiniteSets, TLC

VARIABLES
    tracking,            \* which widget's timer runs: "none", "eye", "hand"
    \* ---- EyeTrackerWidget fields
    calibrated, calibration_points, calibration_step,
    is_blinking, blink_times, last_blink,
    smoothed, move_thr, alpha, dwell, dwell_ts, last_click,
    \* ---- environment and observation of the eye pipeline
    now,                 \* wall clock read by the last tick
    t_end,               \* the time up to which ticks are explored
    frame,               \* input of the last _update: [ret, face, ear, iris]
    cmds,                \* pyautogui commands issued by the last handler
    sig,                 \* calibration_complete emissions of the last handler
    last_ear,            \* EAR of the latest frame with a face (NoValue: no such frame)
    h_unsettled,         \* time of the latest moving frame or smoothing initialisation
    h_click,             \* time of the latest dwell click
    n_dwell,             \* number of dwell clicks issued so far
    h_stale,             \* how many of blink_times were recorded before the latest
                         \* start_recalib
    \* ---- ClickController fields
    down, scroll_mode, last_y,
    \* ---- environment and observation of the hand pipeline
    hframe,              \* input of the last _frame: [ret, hands]
    hcmds,               \* pyautogui commands issued by the last _frame
    hpre,                \* ClickController fields before each hand of the last
                         \* _frame, and last those before the "not left_found" check
    pressed,             \* the OS mouse button after the mouseDown/mouseUp issued so far
    \* ---- gaze mapper exercised on its own
    m_iris, m_target

eyeState == <<calibrated, calibration_points, calibration_step, is_blinking,
              blink_times, last_blink, smoothed, dwell_ts, last_click>>
eyeConfig == <<move_thr, alpha, dwell>>
eyeObs == <<now, t_end, frame, cmds, sig, last_ear, h_unsettled, h_click, n_dwell,
           h_stale>>
eyeVars == <<eyeState, eyeConfig, eyeObs>>
handVars == <<down, scroll_mode, last_y, hframe, hcmds, hpre, pressed>>
mapVars == <<m_iris, m_target>>
vars == <<tracking, eyeVars, handVars, mapVars>>

None == <<>>             \* self.smoothed = None
NoValue == -1            \* None where the value is a number >= 0 (last_y, last_ear)

(***************************************************************************)
(* Bounds of the model.                                                    *)
(***************************************************************************)
StartTime == 100         \* first clock value (time.time() is far from 0)
Horizon == 24            \* ticks are explored up to StartTime + Horizon
GazeHorizon == 11        \* ... and up to GazeHorizon after the calibrated start
ScreenW == 101           \* pyautogui.size()
ScreenH == 101
FrameW == 640            \* width and height of a captured frame
FrameH == 480

(***************************************************************************)
(* Program constants, src/eye_widget.py __init__.                          *)
(***************************************************************************)
NumInstructions == 5     \* len(self.instructions)
blink_thresh == 21       \* 0.21
double_window == 5       \* 0.5 s
ignore_after_blink == 3  \* 0.3 s
DefaultMoveThr == 20
DefaultAlpha == 30       \* 0.3
DefaultDwell == 10       \* 1.0 s
AlphaCeil == 85          \* 0.85
AlphaSpan == 300         \* dist/300

Abs(x) == IF x < 0 THEN -x ELSE x
Min2(a, b) == IF a < b THEN a ELSE b
Max2(a, b) == IF a > b THEN a ELSE b
SetMin(S) == CHOOSE x \in S : \A y \in S : x <= y
SetMax(S) == CHOOSE x \in S : \A y \in S : x >= y

\* F applied to the value of v
Bind(v, F(_)) == CHOOSE r \in {F(x) : x \in {v}} : TRUE

\* int(): truncation toward zero of the rational n/d, d > 0
Trunc(n, d) == IF n >= 0 THEN n \div d ELSE -((-n) \div d)

(***************************************************************************)
(* Inputs of the eye pipeline.                                             *)
(***************************************************************************)
EARs == {15, 21}
IrisPos == {<<3, 3>>, <<7, 7>>}
Dts == {1, 2}           \* clock advance between two ticks
NoFrame == [ret |-> FALSE, face |-> FALSE, ear |-> 0, iris |-> <<0, 0>>]
NoFace == [ret |-> TRUE, face |-> FALSE, ear |-> 0, iris |-> <<0, 0>>]
FaceFrames == {[ret |-> TRUE, face |-> TRUE, ear |-> e, iris |-> p] :
                  e \in EARs, p \in IrisPos}
Frames == {NoFrame, NoFace} \cup FaceFrames

Cmd(op, src, x, y) == [op |-> op, src |-> src, x |-> x, y |-> y]
ClickBlink == Cmd("Click", "blink", 0, 0)
ClickDwell == Cmd("Click", "dwell", 0, 0)
MoveTo(x, y) == Cmd("Move", "gaze", x, y)

(***************************************************************************)
(* EyeTrackerWidget._map                                                   *)
(***************************************************************************)
SubSeq4(pts) == SubSeq(pts, 1, Min2(4, Len(pts)))

\* faulty variant: the axis is inverted
RatioInverted(v, lo, hi, span) ==
    LET c == Max2(lo, Min2(hi, v))
    IN IF hi # lo THEN Trunc((hi - c) * span, hi - lo) ELSE Trunc(span, 2)
Ratio(v, lo, hi, span) ==
    \* int(r * span) with r = (v - lo)/(hi - lo) after clamping, 0.5 if lo = hi
    LET c == Max2(lo, Min2(hi, v))
    IN IF hi # lo THEN Trunc((c - lo) * span, hi - lo) ELSE Trunc(span, 2)

Map(pts, ix, iy) ==
    LET p4 == SubSeq4(pts)
        xs == {p4[i][1] : i \in 1..Len(p4)}
        ys == {p4[i][2] : i \in 1..Len(p4)}
    IN <<Ratio(ix, SetMin(xs), SetMax(xs), ScreenW - 1),
         Ratio(iy, SetMin(ys), SetMax(ys), ScreenH - 1)>>

(***************************************************************************)
(* Blink edge detection and double-blink calibration, _update 123-146      *)
(***************************************************************************)
BlinkRising(ear, blinking) == ear < blink_thresh /\ ~blinking
\* faulty variant: the event fires on every open-eye frame, not only on the edge
BlinkFallingNoEdge(ear, blinking) == ear >= blink_thresh
BlinkFalling(ear, blinking) == ear >= blink_thresh /\ blinking

\* faulty variant: the oldest timestamp is never dropped
PushBlinkNoPop(bt, t) == Append(bt, t)

PushBlink(bt, t) ==
    LET a == Append(bt, t)
    IN IF Len(a) > 2 THEN Tail(a) ELSE a


\* faulty variant: a gap of exactly double_window counts as a double blink
IsDoubleBlinkLe(bt) == Len(bt) = 2 /\ bt[2] - bt[1] <= double_window
IsDoubleBlink(bt) == Len(bt) = 2 /\ bt[2] - bt[1] < double_window


\* faulty variant: off by one, calibration would need a sixth point
CalibrationDoneLate(step) == step > NumInstructions
CalibrationDone(step) == ~(step < NumInstructions)

(***************************************************************************)
(* Gaze smoothing and dwell, _update 151-170                               *)
(***************************************************************************)
\* faulty variant: the gaze block runs again exactly ignore_after_blink after the blink
GazeActiveGe(t, cal, lb) == cal /\ (t - lb) >= ignore_after_blink
\* faulty variant: the gaze block also runs on the tick of a blink
GazeActiveNoIgnore(t, cal, lb) == cal
GazeActive(t, cal, lb) == cal /\ (t - lb) > ignore_after_blink

Dist2(a, b) == (a[1] - b[1]) * (a[1] - b[1]) + (a[2] - b[2]) * (a[2] - b[2])

\* dist < move_thr, with dist = sqrt(d2)
\* faulty variant: every frame counts as settled
SettledAlways(d2, thr) == TRUE
Settled(d2, thr) == d2 < thr * thr


\* faulty variant: the time since the last click is not checked
DwellDueNoLast(t, dts, lc, dw) == t - dts > dw
DwellDue(t, dts, lc, dw) == t - dts > dw /\ t - lc > dw

\* the largest k in lo..hi with k*k <= n (lo*lo <= n assumed)
RECURSIVE RootIn(_, _, _)
RootIn(lo, hi, n) ==
    IF lo >= hi THEN lo
    ELSE LET mid == (lo + hi + 1) \div 2
         IN IF mid * mid <= n THEN RootIn(mid, hi, n) ELSE RootIn(lo, mid - 1, n)
\* 46340 = floor(sqrt(2^31 - 1)): the products stay below 2^31
ISqrt(n) == RootIn(0, Min2(n, 46340), n)

\* floor(|d| * sqrt(d2) / AlphaSpan)
ScaledFloor(d, d2) == ISqrt(d * d * d2) \div AlphaSpan
\* ceil(|d| * sqrt(d2) / AlphaSpan)
ScaledCeil(d, d2) ==
    LET f == ScaledFloor(d, d2)
    IN IF (AlphaSpan * f) * (AlphaSpan * f) >= d * d * d2 THEN f ELSE f + 1

\* int(a*t + (1-a)*s) with a = min(0.85, max(alpha, dist/300)); s, t >= 0
SmoothAxis(s, t, d2, al) ==
    IF d2 * 10000 <= (al * AlphaSpan) * (al * AlphaSpan) \/ al >= AlphaCeil
    THEN LET a == Min2(AlphaCeil, al) IN Trunc(a * t + (100 - a) * s, 100)
    ELSE IF d2 * 10000 >= (AlphaCeil * AlphaSpan) * (AlphaCeil * AlphaSpan)
    THEN Trunc(AlphaCeil * t + (100 - AlphaCeil) * s, 100)
    ELSE IF t >= s THEN s + ScaledFloor(t - s, d2)
    ELSE s - ScaledCeil(t - s, d2)

\* The gaze block for target tgt at time t: the new smoothing state and commands
GazeStep(t, tgt) ==
    IF smoothed = None
    THEN [smoothed |-> tgt, dwell_ts |-> t, last_click |-> last_click,
          cmds |-> <<>>, unsettled |-> TRUE, clicked |-> FALSE]
    ELSE LET d2 == Dist2(tgt, smoothed) IN
         IF Settled(d2, move_thr)
         THEN IF DwellDue(t, dwell_ts, last_click, dwell)
              THEN [smoothed |-> smoothed, dwell_ts |-> dwell_ts, last_click |-> t,
                    cmds |-> <<ClickDwell>>, unsettled |-> FALSE, clicked |-> TRUE]
              ELSE [smoothed |-> smoothed, dwell_ts |-> dwell_ts,
                    last_click |-> last_click,
                    cmds |-> <<>>, unsettled |-> FALSE, clicked |-> FALSE]
         ELSE LET sx == SmoothAxis(smoothed[1], tgt[1], d2, alpha)
                  sy == SmoothAxis(smoothed[2], tgt[2], d2, alpha)
              IN [smoothed |-> <<sx, sy>>, dwell_ts |-> t, last_click |-> last_click,
                  cmds |-> <<MoveTo(sx, sy)>>, unsettled |-> TRUE, clicked |-> FALSE]

(***************************************************************************)
(* EyeTrackerWidget._update: one timer tick                                *)
(***************************************************************************)
\* faulty variant: a frame without a face is processed like one with a face
SkippedOnlyNoRet(fr) == ~fr.ret
\* "if not ret: return", and nothing but the preview unless res.multi_face_landmarks
Skipped(fr) == ~fr.ret \/ ~fr.face

Update(dt, fr) ==
    LET t == now + dt IN
    /\ tracking = "eye"
    /\ t <= t_end
    /\ now' = t
    /\ frame' = fr
    /\ UNCHANGED <<tracking, t_end, eyeConfig, handVars, mapVars>>
    /\ IF Skipped(fr)
       THEN /\ UNCHANGED <<eyeState, last_ear, h_unsettled, h_click, n_dwell, h_stale>>
            /\ cmds' = <<>>
            /\ sig' = 0
       ELSE LET rising == BlinkRising(fr.ear, is_blinking)
                falling == ~rising /\ BlinkFalling(fr.ear, is_blinking)
                feed == falling /\ ~calibrated
                bt1 == IF feed THEN PushBlink(blink_times, t) ELSE blink_times
                capture == feed /\ IsDoubleBlink(bt1)
                step1 == IF capture THEN calibration_step + 1 ELSE calibration_step
                done == capture /\ CalibrationDone(step1)
                cal1 == IF done THEN TRUE ELSE calibrated
                pts1 == IF capture THEN Append(calibration_points, fr.iris)
                        ELSE calibration_points
                lb1 == IF falling THEN t ELSE last_blink
                c1 == IF falling /\ calibrated THEN <<ClickBlink>> ELSE <<>>
                gaze == GazeActive(t, cal1, lb1)
            IN /\ is_blinking' = IF rising THEN TRUE
                                 ELSE IF falling THEN FALSE ELSE is_blinking
               /\ last_blink' = lb1
               /\ blink_times' = IF capture THEN <<>> ELSE bt1
               /\ calibration_points' = pts1
               /\ calibration_step' = step1
               /\ calibrated' = cal1
               /\ sig' = IF done THEN 1 ELSE 0
               /\ last_ear' = fr.ear
               /\ h_stale' = IF capture THEN 0
                             ELSE IF feed /\ Len(blink_times) = 2
                             THEN Max2(0, h_stale - 1) ELSE h_stale
               /\ IF gaze
                  THEN \E tgt \in {Map(pts1, fr.iris[1], fr.iris[2])} :
                       \E g \in {GazeStep(t, tgt)} :
                       /\ smoothed' = g.smoothed
                       /\ dwell_ts' = g.dwell_ts
                       /\ last_click' = g.last_click
                       /\ cmds' = c1 \o g.cmds
                       /\ h_unsettled' = IF g.unsettled THEN t ELSE h_unsettled
                       /\ h_click' = IF g.clicked THEN t ELSE h_click
                       /\ n_dwell' = IF g.clicked THEN n_dwell + 1 ELSE n_dwell
                  ELSE /\ UNCHANGED <<smoothed, dwell_ts, last_click,
                                      h_unsettled, h_click, n_dwell>>
                       /\ cmds' = c1

(***************************************************************************)
(* EyeTrackerWidget.start_recalib                                          *)
(***************************************************************************)
start_recalib ==
    /\ tracking = "eye"
    /\ calibrated' = FALSE
    /\ calibration_points' = <<>>
    /\ calibration_step' = 0
    /\ smoothed' = None
    /\ cmds' = <<>>
    /\ sig' = 0
    /\ h_stale' = Len(blink_times)
    /\ UNCHANGED <<tracking, is_blinking, blink_times, last_blink, dwell_ts,
                   last_click, eyeConfig, now, t_end, frame, last_ear, h_unsettled,
                   h_click, n_dwell, handVars, mapVars>>

(***************************************************************************)
(* EyeTrackerWidget.open_settings: the dwell spin box's valueChanged       *)
(***************************************************************************)
DwellMin == 2            \* dwell.setRange(0.2, 3.0)
DwellChoices == {DwellMin, DefaultDwell}
set_dwell(v) ==
    /\ tracking = "eye"
    /\ v # dwell
    /\ dwell' = v
    /\ cmds' = <<>>
    /\ sig' = 0
    /\ UNCHANGED <<tracking, eyeState, move_thr, alpha, now, t_end, frame, last_ear,
                   h_unsettled, h_click, n_dwell, h_stale, handVars, mapVars>>

\* the move-threshold spin box, range 1..100
MoveThrMin == 1
MoveThrChoices == {MoveThrMin, 3, DefaultMoveThr}
set_move_thr(v) ==
    /\ tracking = "eye"
    /\ v # move_thr
    /\ move_thr' = v
    /\ cmds' = <<>>
    /\ sig' = 0
    /\ UNCHANGED <<tracking, eyeState, alpha, dwell, now, t_end, frame, last_ear,
                   h_unsettled, h_click, n_dwell, h_stale, handVars, mapVars>>

\* the smoothing spin box, range 0.01..0.99
AlphaMin == 1
AlphaChoices == {AlphaMin, DefaultAlpha}
set_alpha(v) ==
    /\ tracking = "eye"
    /\ v # alpha
    /\ alpha' = v
    /\ cmds' = <<>>
    /\ sig' = 0
    /\ UNCHANGED <<tracking, eyeState, move_thr, dwell, now, t_end, frame, last_ear,
                   h_unsettled, h_click, n_dwell, h_stale, handVars, mapVars>>

(***************************************************************************)
(* EyeTrackerWidget.start_tracking                                         *)
(***************************************************************************)
start_tracking_eye ==
    /\ tracking = "none"
    /\ tracking' = "eye"
    /\ UNCHANGED <<eyeVars, handVars, mapVars>>

(***************************************************************************)
(* Inputs of the hand pipeline: one hand is its label and the normalised   *)
(* thumb tip (landmark 4), index tip (8) and middle tip (12).              *)
(***************************************************************************)
IndexYs == {400, 416, 450}
ThumbDxs == {30, 63}     \* 19 px and exactly 40 px from the index tip
MiddleDxs == {30, 50}    \* 0.03 and exactly 0.05 from the index tip
Hand(label, iy, tdx, mdx) ==
    [label |-> label, thumb |-> <<500 + tdx, iy>>, index |-> <<500, iy>>,
     middle |-> <<500 + mdx, iy>>]
LeftHands == {Hand("Left", 400, 63, 50)}
RightHands == {Hand("Right", iy, tdx, mdx) :
                  iy \in IndexYs, tdx \in ThumbDxs, mdx \in MiddleDxs}
Hands == LeftHands \cup RightHands
HandSeqs == {<<>>} \cup {<<h>> : h \in Hands} \cup {<<g, h>> : g \in Hands, h \in Hands}
HNoFrame == [ret |-> FALSE, hands |-> <<>>]
HFrames == {HNoFrame} \cup {[ret |-> TRUE, hands |-> hs] : hs \in HandSeqs}

\* a command issued while hand number i of the frame is processed (0: after the loop)
HCmd(op, i, x, y) == [op |-> op, hand |-> i, x |-> x, y |-> y]

(***************************************************************************)
(* ClickController (src/hand_widget.py).  c = [down, scroll_mode, last_y]  *)
(***************************************************************************)
thresh == 40
ScrollPinch == 50        \* 0.05 in thousandths
ScrollScale == 100
FailsafeThumb == <<0, 0>>
FailsafeIndex == <<9999, 9999>>

\* d < self.thresh, d = hypot of the pixel difference
IsDown(tp, ip) == Dist2(tp, ip) < thresh * thresh

\* ClickController.update
update(c, tp, ip, i) ==
    LET dn == IsDown(tp, ip)
    IN [c |-> [c EXCEPT !.down = dn],
        cmds |-> IF dn /\ ~c.down THEN <<HCmd("MouseDown", i, 0, 0)>>
                 ELSE IF ~dn /\ c.down THEN <<HCmd("MouseUp", i, 0, 0)>>
                 ELSE <<>>]

\* faulty variant: a pinch distance of exactly 0.05 enters scroll mode
IsScrollPinchLe(h) == Dist2(h.index, h.middle) <= ScrollPinch * ScrollPinch
\* pinch_distance < 0.05 between the normalised index and middle tips
IsScrollPinch(h) == Dist2(h.index, h.middle) < ScrollPinch * ScrollPinch

\* (pointer_tip.y + middle_tip.y) / 2, kept doubled
MidY(h) == h.index[2] + h.middle[2]

\* int(y_diff * 100) for the doubled midpoints cur and last (thousandths)
ScrollAmount(cur, last) == Trunc((cur - last) * ScrollScale, 2000)

\* pixel position of a normalised landmark: int(p.x*w), int(p.y*h)
Pixel(p) == <<Trunc(p[1] * FrameW, 1000), Trunc(p[2] * FrameH, 1000)>>

\* faulty variant: the held click is not released while scrolling
ScrollBlockNoSuppress(c1, cmds0, h, i) ==
    IF IsScrollPinch(h)
    THEN LET first == c1.last_y = NoValue
             amt == IF first THEN 0 ELSE ScrollAmount(MidY(h), c1.last_y)
             scr == IF ~first /\ Abs(amt) > 1
                    THEN <<HCmd("Scroll", i, -amt, 0)>> ELSE <<>>
         IN [c |-> [c1 EXCEPT !.last_y = MidY(h), !.scroll_mode = TRUE],
             cmds |-> cmds0 \o scr]
    ELSE [c |-> IF c1.scroll_mode
                THEN [c1 EXCEPT !.scroll_mode = FALSE, !.last_y = NoValue]
                ELSE c1,
          cmds |-> cmds0 \o (IF c1.scroll_mode /\ c1.down
                             THEN <<HCmd("MouseDown", i, 0, 0)>> ELSE <<>>)]

\* the scroll block of update_with_landmarks, after update() left c1 and cmds0
ScrollBlock(c1, cmds0, h, i) ==
    IF IsScrollPinch(h)
    THEN LET first == c1.last_y = NoValue
             amt == IF first THEN 0 ELSE ScrollAmount(MidY(h), c1.last_y)
             scr == IF ~first /\ Abs(amt) > 1
                    THEN <<HCmd("Scroll", i, -amt, 0)>> ELSE <<>>
             up == IF c1.down THEN <<HCmd("MouseUp", i, 0, 0)>> ELSE <<>>
         IN [c |-> [c1 EXCEPT !.last_y = MidY(h), !.scroll_mode = TRUE],
             cmds |-> cmds0 \o scr \o up]
    ELSE [c |-> IF c1.scroll_mode
                THEN [c1 EXCEPT !.scroll_mode = FALSE, !.last_y = NoValue]
                ELSE c1,
          cmds |-> cmds0 \o (IF c1.scroll_mode /\ c1.down
                             THEN <<HCmd("MouseDown", i, 0, 0)>> ELSE <<>>)]

\* ClickController.update_with_landmarks
update_with_landmarks(c, h, i) ==
    Bind(update(c, Pixel(h.thumb), Pixel(h.index), i),
         LAMBDA u : ScrollBlock(u.c, u.cmds, h, i))

(***************************************************************************)
(* HandTrackerWidget._frame                                                *)
(***************************************************************************)
\* the loop body for hand number i
HandStep(acc, h, i) ==
    IF h.label = "Left"
    THEN LET ix == Pixel(h.index)
             sx == Trunc(ix[1] * ScreenW, FrameW)
             sy == Trunc(ix[2] * ScreenH, FrameH)
         IN [acc EXCEPT !.cmds = Append(@, HCmd("Move", i, sx, sy)),
                        !.pre = Append(@, acc.c),
                        !.left_found = TRUE]
    ELSE Bind(update_with_landmarks(acc.c, h, i),
              LAMBDA u : [acc EXCEPT !.c = u.c,
                                     !.cmds = @ \o u.cmds,
                                     !.pre = Append(@, acc.c)])

RECURSIVE HandLoop(_, _, _)
HandLoop(acc, hands, i) ==
    IF i > Len(hands) THEN acc
    ELSE Bind(HandStep(acc, hands[i], i), LAMBDA a : HandLoop(a, hands, i + 1))

\* faulty variant: the click is never lifted after the loop
FailsafeNever(acc) == [acc EXCEPT !.pre = Append(@, acc.c)]
\* "if not left_found": lift the click
Failsafe(acc) ==
    IF ~acc.left_found
    THEN Bind(update(acc.c, FailsafeThumb, FailsafeIndex, 0),
              LAMBDA u : [acc EXCEPT !.c = u.c, !.cmds = @ \o u.cmds,
                                     !.pre = Append(@, acc.c)])
    ELSE [acc EXCEPT !.pre = Append(@, acc.c)]

Ctrl == [down |-> down, scroll_mode |-> scroll_mode, last_y |-> last_y]

RightOf(hands) == {i \in 1..Len(hands) : hands[i].label # "Left"}

\* the OS button after the commands cs, b being its state before them
ButtonAfter(b, cs) ==
    LET K == {k \in 1..Len(cs) : cs[k].op \in {"MouseDown", "MouseUp"}}
    IN IF K = {} THEN b ELSE cs[SetMax(K)].op = "MouseDown"

Frame(fr) ==
    /\ tracking = "hand"
    /\ hframe' = fr
    /\ UNCHANGED <<tracking, eyeVars, mapVars>>
    /\ IF ~fr.ret
       THEN /\ UNCHANGED <<down, scroll_mode, last_y>>
            /\ hcmds' = <<>>
            /\ hpre' = <<>>
       ELSE \E acc \in {Failsafe(HandLoop([c |-> Ctrl, cmds |-> <<>>, pre |-> <<>>,
                                              left_found |-> FALSE], fr.hands, 1))} :
            /\ down' = acc.c.down
            /\ scroll_mode' = acc.c.scroll_mode
            /\ last_y' = acc.c.last_y
            /\ hcmds' = acc.cmds
            /\ hpre' = acc.pre
    /\ pressed' = ButtonAfter(pressed, hcmds')

(***************************************************************************)
(* HandTrackerWidget.start_tracking                                        *)
(***************************************************************************)
start_tracking_hand ==
    /\ tracking = "none"
    /\ tracking' = "hand"
    /\ UNCHANGED <<eyeVars, handVars, mapVars>>

Init ==
    /\ tracking = "none"
    /\ calibrated = FALSE
    /\ calibration_points = <<>>
    /\ calibration_step = 0
    /\ is_blinking = FALSE
    /\ blink_times = <<>>
    /\ last_blink = 0
    /\ smoothed = None
    /\ move_thr = DefaultMoveThr
    /\ alpha = DefaultAlpha
    /\ dwell = DefaultDwell
    /\ dwell_ts = 0
    /\ last_click = 0
    /\ now = StartTime
    /\ t_end = StartTime + Horizon
    /\ frame = NoFrame
    /\ cmds = <<>>
    /\ sig = 0
    /\ last_ear = NoValue
    /\ h_unsettled = 0
    /\ h_click = 0
    /\ n_dwell = 0
    /\ h_stale = 0
    /\ down = FALSE
    /\ scroll_mode = FALSE
    /\ last_y = NoValue
    /\ hframe = HNoFrame
    /\ hcmds = <<>>
    /\ hpre = <<>>
    /\ pressed = FALSE
    /\ m_iris = <<0, 0>>
    /\ m_target = <<0, 0>>

(***************************************************************************)
(* The state right after the fastest complete calibration: five double     *)
(* blinks, one tick per time unit, captured with the iris alternating      *)
(* between the two positions.  Spec reaches it; SpecCal also starts from   *)
(* it, with its own horizon, so that the dwell engine runs for longer than *)
(* a dwell.                                                                *)
(***************************************************************************)
CalTime == StartTime + 4 * NumInstructions
CalPoints == <<<<3, 3>>, <<7, 7>>, <<3, 3>>, <<7, 7>>, <<3, 3>>>>
CalibratedWith(pts) ==
    /\ tracking = "eye"
    /\ calibrated = TRUE
    /\ calibration_points = pts
    /\ calibration_step = NumInstructions
    /\ is_blinking = FALSE
    /\ blink_times = <<>>
    /\ last_blink = CalTime
    /\ smoothed = None
    /\ move_thr = DefaultMoveThr
    /\ alpha = DefaultAlpha
    /\ dwell = DefaultDwell
    /\ dwell_ts = 0
    /\ last_click = 0
    /\ now = CalTime
    /\ frame = [ret |-> TRUE, face |-> TRUE, ear |-> 21, iris |-> <<3, 3>>]
    /\ cmds = <<>>
    /\ sig = 1
    /\ last_ear = 21
    /\ h_unsettled = 0
    /\ h_click = 0
    /\ n_dwell = 0
    /\ h_stale = 0

RestInit ==
    /\ t_end = CalTime + GazeHorizon
    /\ down = FALSE
    /\ scroll_mode = FALSE
    /\ last_y = NoValue
    /\ hframe = HNoFrame
    /\ hcmds = <<>>
    /\ hpre = <<>>
    /\ pressed = FALSE
    /\ m_iris = <<0, 0>>
    /\ m_target = <<0, 0>>

CalibratedStart == CalibratedWith(CalPoints)
InitCalibrated == CalibratedStart /\ RestInit

(***************************************************************************)
(* The gaze mapper on its own: any four corner points and a fifth point,   *)
(* and _map applied to an iris position.                                   *)
(***************************************************************************)
GridXs == {3, 5, 7}
Grid == GridXs \X GridXs
InitMap ==
    /\ \E c1 \in Grid, c2 \in Grid, c3 \in Grid, c4 \in Grid :
          CalibratedWith(<<c1, c2, c3, c4, <<3, 3>>>>)
    /\ RestInit

map_iris(p) ==
    /\ m_iris' = p
    /\ m_target' = Map(calibration_points, p[1], p[2])
    /\ UNCHANGED <<tracking, eyeVars, handVars>>

NextMap == \E p \in Grid : map_iris(p)

(***************************************************************************)
(* Properties.                                                             *)
(***************************************************************************)
Last(q) == q[Len(q)]
Ops(cs) == {cs[k].op : k \in 1..Len(cs)}
Elems(cs) == {cs[k] : k \in 1..Len(cs)}

\* a step of _update that processed a frame with a face
FaceTick == now' # now /\ frame'.ret /\ frame'.face
\* a BlinkEvent: is_blinking goes True -> False and last_blink is set
BlinkEventStep == is_blinking /\ ~is_blinking' /\ last_blink' = now'
\* the EAR of the processed frames crosses from below the threshold to at or above it
FallingCrossing ==
    FaceTick /\ last_ear # NoValue /\ last_ear < 21 /\ frame'.ear >= 21
\* a calibration point is captured
CaptureStep == Len(calibration_points') > Len(calibration_points)

\* C1: over the EAR values of the processed frames, a BlinkEvent occurs on exactly
\* the steps where the EAR crosses from < threshold to >= threshold; last_blink
\* changes on no other step (no event on the crossing into the blink, none while
\* the blink state stays the same).
BlinkOncePerFallingEdge ==
    [][/\ BlinkEventStep <=> FallingCrossing
       /\ last_blink' # last_blink => BlinkEventStep
       /\ is_blinking' # is_blinking => FaceTick]_vars

BlinkEventSeen ==
    frame.face /\ last_blink = now /\ ~is_blinking /\ last_ear >= 21

\* C2: while not calibrated a point is captured on a BlinkEvent at t1 iff the
\* buffer still holds the previous BlinkEvent t0 and t1 - t0 < double_window (0.5 s);
\* the capture adds exactly one point (the iris of that frame) and empties the
\* buffer; no point is captured on any other step.  The buffered timestamp is the
\* previous BlinkEvent, and the buffer never holds more than 2.
DoubleBlinkCapturesOnePoint ==
    [][/\ CaptureStep <=>
             /\ ~calibrated
             /\ BlinkEventStep
             /\ blink_times # <<>>
             /\ now' - Last(blink_times) < 5
       /\ CaptureStep =>
             /\ calibration_points' = Append(calibration_points, frame'.iris)
             /\ blink_times' = <<>>
       /\ blink_times' # <<>> => Last(blink_times') = last_blink'
       /\ Len(blink_times') <= 2]_vars

\* a third blink less than double_window after the capture of the first point
\* captured nothing
ThirdBlinkCapturesNothing ==
    /\ Len(calibration_points) = 1
    /\ blink_times = <<now>>
    /\ last_blink = now
    /\ now <= StartTime + 8

\* C3: calibrated becomes True exactly on the capture of the 5th point, the
\* calibration_complete signal is emitted exactly on that step (so once per run),
\* and while calibrated no point is captured and no signal is emitted.
CalibrationCompletes ==
    [][/\ sig' = 1 <=> (CaptureStep /\ Len(calibration_points) = 4)
       /\ sig' \in {0, 1}
       /\ (~calibrated /\ calibrated') <=> sig' = 1
       /\ calibrated => ~CaptureStep
       /\ calibrated' <=> Len(calibration_points') = 5
       /\ calibration_step' = Len(calibration_points')]_vars

\* the tick that captured the 5th point: calibrated, signal emitted
CalibrationRunCompleted ==
    /\ tracking = "eye"
    /\ calibrated
    /\ sig = 1
    /\ Len(calibration_points) = NumInstructions
    /\ calibration_step = NumInstructions

\* C4: a dwell Click is issued only by a tick on a settled frame (the distance from
\* the smoothed position to the mapped target is below move_thr) with no moving frame
\* and no smoothing initialisation in the preceding dwell duration, and more than one
\* dwell duration after the previous dwell Click.
DwellClickOnlyAfterDwell ==
    [][(ClickDwell \in Elems(cmds')) =>
          /\ FaceTick
          /\ calibrated
          /\ smoothed # None
          /\ smoothed' = smoothed
          /\ Dist2(Map(calibration_points, frame'.iris[1], frame'.iris[2]), smoothed)
                < move_thr * move_thr
          /\ cmds' = <<ClickDwell>>
          /\ now' - h_unsettled > dwell
          /\ now' - h_click > dwell]_vars

SecondDwellClick ==
    /\ n_dwell >= 2
    /\ cmds = <<ClickDwell>>
    /\ last_click = now

\* C10: on every tick at most ignore_after_blink (0.3 s) after the most recent
\* BlinkEvent, the tick of the BlinkEvent included, no Move and no dwell Click is
\* issued and smoothed, dwell_ts and last_click are unchanged.
GazeSuppressedAfterBlink ==
    [][(now' # now /\ now' - last_blink' <= 3) =>
          /\ "Move" \notin Ops(cmds')
          /\ ClickDwell \notin Elems(cmds')
          /\ smoothed' = smoothed
          /\ dwell_ts' = dwell_ts
          /\ last_click' = last_click]_vars

\* a frame with a face, processed 0.3 s after a blink while the gaze engine was running
SuppressedTickSeen ==
    /\ calibrated
    /\ smoothed # None
    /\ frame.face
    /\ now - last_blink = 3
    /\ cmds = <<>>

(***************************************************************************)
(* Properties of the hand pipeline.  hframe, hpre and hcmds are the input, *)
(* the ClickController fields before each hand and the commands of the     *)
(* latest _frame; down, scroll_mode and last_y are the fields after it.    *)
(***************************************************************************)
HandTicked == tracking = "hand" /\ hframe.ret
Rights == RightOf(hframe.hands)
\* pixel distance thumb tip - index tip below click_threshold (40 px)
PinchBelow(h) == Dist2(Pixel(h.thumb), Pixel(h.index)) < 40 * 40
\* normalised distance index tip - middle tip below 0.05
ScrollPinched(h) == Dist2(h.index, h.middle) < 50 * 50

\* C5: after a tick in which a frame was read and no hand was detected the click
\* flag is False, whatever the flag and the scroll mode were before the tick.
NoHandReleases ==
    (HandTicked /\ hframe.hands = <<>>) => ~down

NoHandReleasedHeldClick ==
    /\ HandTicked
    /\ hframe.hands = <<>>
    /\ hpre[1].down
    /\ hpre[1].scroll_mode
    /\ ~down

\* C6 (as claimed): on a tick with one right hand whose click pinch is below the
\* threshold, with no scroll pinch and scroll mode off, no MouseUp is issued and the
\* click flag is set at the end of the tick, whether or not a left hand is present.
PinchHoldsClick ==
    \A i \in Rights :
        (/\ HandTicked
         /\ Cardinality(Rights) = 1
         /\ PinchBelow(hframe.hands[i])
         /\ ~ScrollPinched(hframe.hands[i])
         /\ ~hpre[i].scroll_mode)
        => (down /\ "MouseUp" \notin Ops(hcmds))

\* C7 (as claimed): every tick of either pipeline issues at most one command.
AtMostOneCommand == Len(cmds) <= 1 /\ Len(hcmds) <= 1

CmdsOf(i) == {k \in 1..Len(hcmds) : hcmds[k].hand = i}
\* C7 (amended): a gaze tick issues at most one command; a hand tick issues exactly
\* one Move per left hand, at most three commands per right hand (at most one
\* MouseDown/MouseUp of the click update, then at most one Scroll, then at most one
\* MouseUp/MouseDown of the scroll mode) and at most one MouseUp after the loop,
\* and that one only when no left hand was found.
CommandsPerTick ==
    /\ Len(cmds) <= 1
    /\ \A i \in 1..Len(hframe.hands) :
          IF hframe.hands[i].label = "Left"
          THEN \E k \in 1..Len(hcmds) : CmdsOf(i) = {k} /\ hcmds[k].op = "Move"
          ELSE /\ Cardinality(CmdsOf(i)) <= 3
               /\ Cardinality({k \in CmdsOf(i) : hcmds[k].op = "Scroll"}) <= 1
               /\ \A k \in CmdsOf(i) : hcmds[k].op \in {"MouseDown", "MouseUp", "Scroll"}
    /\ Cardinality(CmdsOf(0)) <= 1
    /\ \A k \in CmdsOf(0) :
          /\ hcmds[k].op = "MouseUp"
          /\ \A i \in 1..Len(hframe.hands) : hframe.hands[i].label # "Left"
    /\ \A k \in 1..Len(hcmds) : hcmds[k].hand \in 0..Len(hframe.hands)

\* a left hand and a pinching right hand in one tick: a Move and a MouseDown
MoveAndMouseDownInOneTick ==
    /\ HandTicked
    /\ Ops(hcmds) = {"Move", "MouseDown"}
    /\ Len(hcmds) = 2

ScreenCorner(j) ==
    CASE j = 1 -> <<0, 0>>
      [] j = 2 -> <<ScreenW - 1, 0>>
      [] j = 3 -> <<ScreenW - 1, ScreenH - 1>>
      [] j = 4 -> <<0, ScreenH - 1>>

IsRectangle(pts) ==
    /\ pts[1][1] = pts[4][1] /\ pts[2][1] = pts[3][1] /\ pts[1][1] < pts[2][1]
    /\ pts[1][2] = pts[2][2] /\ pts[3][2] = pts[4][2] /\ pts[1][2] < pts[4][2]

BlinkIssuesNoCommand == ClickBlink \notin Elems(cmds)

\* the commands of the latest _frame issued for hand i, in order
OpsOf(i) == {hcmds[k].op : k \in CmdsOf(i)}
\* the click flag after ClickController.update for hand h
DownAfterUpdate(h) == PinchBelow(h)

FailedReadIsNoOp ==
    [][/\ (tracking = "eye" /\ now' # now /\ (~frame'.ret \/ ~frame'.face)) =>
             /\ UNCHANGED <<eyeState, eyeConfig>>
             /\ cmds' = <<>>
             /\ sig' = 0
       /\ (tracking = "hand" /\ ~hframe'.ret) =>
             /\ UNCHANGED <<down, scroll_mode, last_y, pressed>>
             /\ hcmds' = <<>>]_vars

\* a failed read with no hand in the frame data while the click is held: not lifted
FailedReadKeepsClick ==
    /\ tracking = "hand"
    /\ ~hframe.ret
    /\ down
    /\ pressed
    /\ hcmds = <<>>

\* a tick that ran the gaze block: calibrated, face, more than 0.3 s after the blink
GazeTick == FaceTick /\ calibrated' /\ now' - last_blink' > 3
\* the mapped target of the frame of the step
TargetOfStep == Map(calibration_points', frame'.iris[1], frame'.iris[2])

\* C14: on a processed calibrated gaze frame, (1) with no smoothed position it is
\* initialised to the target, dwell_ts is set to now and no command is issued;
\* (2) on a settled frame (d < move_thr) smoothed and dwell_ts are unchanged and no
\* Move is issued; (3) on a moving frame (d >= move_thr) dwell_ts is set to now,
\* the smoothed position is set to int(a*target + (1-a)*smoothed) per axis (between
\* the old position and the target) and exactly one Move, to the new smoothed
\* position, and no Click is issued.
GazeFrameEffects ==
    [][GazeTick =>
          IF smoothed = None
          THEN /\ smoothed' = TargetOfStep
               /\ dwell_ts' = now'
               /\ cmds' = <<>>
          ELSE IF Dist2(TargetOfStep, smoothed) < move_thr * move_thr
          THEN /\ smoothed' = smoothed
               /\ dwell_ts' = dwell_ts
               /\ "Move" \notin Ops(cmds')
          ELSE /\ dwell_ts' = now'
               /\ \A k \in 1..2 :
                     /\ smoothed'[k] = SmoothAxis(smoothed[k], TargetOfStep[k],
                                                  Dist2(TargetOfStep, smoothed), alpha)
                     /\ smoothed'[k] >= Min2(smoothed[k], TargetOfStep[k])
                     /\ smoothed'[k] <= Max2(smoothed[k], TargetOfStep[k])
               /\ cmds' = <<MoveTo(smoothed'[1], smoothed'[2])>>]_vars

\* a moving frame has just been processed: one Move to the new smoothed position,
\* which is not yet the target
MovingFrameSeen ==
    /\ calibrated
    /\ smoothed # None
    /\ cmds = <<MoveTo(smoothed[1], smoothed[2])>>
    /\ dwell_ts = now
    /\ smoothed # Map(calibration_points, frame.iris[1], frame.iris[2])

\* round(n / d) as Python 3 rounds (halves to the even neighbour), d > 0
RoundDiv(n, d) ==
    LET a == Abs(n)
        q == a \div d
        r == a % d
        m == IF 2 * r > d \/ (2 * r = d /\ q % 2 = 1) THEN q + 1 ELSE q
    IN IF n < 0 THEN -m ELSE m
\* the amounts of the Scroll commands issued for hand i by the latest _frame
ScrollsOf(i) == {hcmds[k].x : k \in {j \in CmdsOf(i) : hcmds[j].op = "Scroll"}}

\* C15 (as claimed): in scroll mode with a reference y, the scroll amount is
\* round((currentY - lastY) * 100) and a Scroll of the negated amount is issued
\* exactly when the rounded amount has absolute value > 1.
ScrollAmountIsRounded ==
    \A i \in Rights :
        LET h == hframe.hands[i]
            amt == RoundDiv((MidY(h) - hpre[i].last_y) * 100, 2000)
        IN (HandTicked /\ ScrollPinched(h) /\ hpre[i].last_y # NoValue) =>
              ScrollsOf(i) = IF Abs(amt) > 1 THEN {-amt} ELSE {}

\* the MouseDown and MouseUp commands among cs, in order
ButtonCmds(cs) == SelectSeq(cs, LAMBDA c : c.op \in {"MouseDown", "MouseUp"})
\* from button state b, every MouseUp of cs finds the button pressed and every
\* MouseDown finds it released
Alternating(b, cs) ==
    LET bs == ButtonCmds(cs) IN
    \A k \in 1..Len(bs) :
        LET before == IF k = 1 THEN b ELSE bs[k - 1].op = "MouseDown"
        IN bs[k].op = IF before THEN "MouseUp" ELSE "MouseDown"

\* C16 (as claimed): over any sequence of hand ticks MouseDown and MouseUp strictly
\* alternate, starting with MouseDown: no MouseUp is issued while the OS button is
\* released and no MouseDown while it is pressed.
MouseDownUpAlternate == [][Alternating(pressed, hcmds')]_vars

\* C17 (as claimed): when a frame is processed in which no right hand is detected
\* (the right hand disappeared or no hand is tracked), the scroll reference is
\* reset: scroll_mode is False and last_y is None after the tick, so that the next
\* scroll pinch starts from a fresh reference and issues no Scroll on its first tick.
ScrollReferenceResetOnHandLoss ==
    (HandTicked /\ Rights = {}) => (~scroll_mode /\ last_y = NoValue)

\* C18 (as claimed): after start_recalib, issued in any state, a calibration point
\* is captured only by two BlinkEvents that both occurred after the trigger: the
\* buffered BlinkEvent that a capture pairs with the current one was never recorded
\* before the latest start_recalib.
CaptureNeedsTwoBlinksAfterRecalib ==
    [][CaptureStep => h_stale < Len(blink_times)]_vars

\* C20: in every reachable state of the gaze pipeline calibration_step is the number
\* of stored calibration points and at most 5, calibrated holds iff that number is
\* 5, the blink buffer holds at most 2 timestamps and a smoothed position exists
\* only while calibrated; every tick that runs the gaze block, and so _map, has at
\* least 4 calibration points.
CalibrationStateConsistent ==
    /\ [](/\ calibration_step = Len(calibration_points)
          /\ calibration_step <= 5
          /\ calibrated <=> Len(calibration_points) = 5
          /\ Len(blink_times) <= 2
          /\ smoothed # None => calibrated)
    /\ [][GazeTick => Len(calibration_points') >= 4]_vars

\* later than any run from construction lasts: re-calibration was triggered after
\* the completed calibration and one point of the new run is captured
RecalibrationUnderWay ==
    /\ now > StartTime + Horizon
    /\ ~calibrated
    /\ calibration_step = 1
    /\ Len(calibration_points) = 1
    /\ smoothed = None

(***************************************************************************)
(* The smoothing engine exercised on its own (SpecSmooth): a calibrated    *)
(* pipeline whose calibration box is the unit square in hundredths, so     *)
(* that _map sends the iris (x, y) to the pixel (x, y) of the 101 x 101    *)
(* screen; the last blink is 0.3 s old, every frame shows a face with open *)
(* eyes, and the settings dialog changes move_thr and alpha between ticks. *)
(***************************************************************************)
SmoothHorizon == 4
UnitPoints == <<<<0, 0>>, <<100, 0>>, <<100, 100>>, <<0, 100>>, <<0, 0>>>>
SmoothIris == {<<0, 0>>, <<1, 0>>, <<3, 0>>, <<100, 50>>}
SmoothFrames == {[ret |-> TRUE, face |-> TRUE, ear |-> 21, iris |-> p] : p \in SmoothIris}
InitSmooth ==
    /\ tracking = "eye"
    /\ calibrated = TRUE
    /\ calibration_points = UnitPoints
    /\ calibration_step = NumInstructions
    /\ is_blinking = FALSE
    /\ blink_times = <<>>
    /\ last_blink = CalTime
    /\ smoothed = None
    /\ move_thr = DefaultMoveThr
    /\ alpha = DefaultAlpha
    /\ dwell = DefaultDwell
    /\ dwell_ts = 0
    /\ last_click = 0
    /\ now = CalTime + ignore_after_blink
    /\ t_end = CalTime + ignore_after_blink + SmoothHorizon
    /\ frame = [ret |-> TRUE, face |-> TRUE, ear |-> 21, iris |-> <<0, 0>>]
    /\ cmds = <<>>
    /\ sig = 0
    /\ last_ear = 21
    /\ h_unsettled = 0
    /\ h_click = 0
    /\ n_dwell = 0
    /\ h_stale = 0
    /\ down = FALSE
    /\ scroll_mode = FALSE
    /\ last_y = NoValue
    /\ hframe = HNoFrame
    /\ hcmds = <<>>
    /\ hpre = <<>>
    /\ pressed = FALSE
    /\ m_iris = <<0, 0>>
    /\ m_target = <<0, 0>>

NextSmooth ==
    \/ \E fr \in SmoothFrames : Update(1, fr)
    \/ \E v \in MoveThrChoices : set_move_thr(v)
    \/ \E v \in AlphaChoices : set_alpha(v)

\* C19 (as claimed): for every configuration in the allowed ranges the smoothing step
\* with integer truncation never leaves the smoothed position unchanged on a moving
\* frame (d >= move_thr), so that with a fixed target the Moves stop and the dwell
\* Click is eventually issued.
MovingFrameMovesCursor ==
    [][(GazeTick /\ smoothed # None
          /\ Dist2(TargetOfStep, smoothed) >= move_thr * move_thr)
       => smoothed' # smoothed]_vars

Next ==
    \/ start_tracking_eye
    \/ \E dt \in Dts, fr \in Frames : Update(dt, fr)
    \/ start_recalib
    \/ \E v \in DwellChoices : set_dwell(v)
    \/ start_tracking_hand
    \/ \E fr \in HFrames : Frame(fr)

Spec == Init /\ [][Next]_vars
SpecCal == (Init \/ InitCalibrated) /\ [][Next]_vars
SpecMap == InitMap /\ [][NextMap]_vars
SpecSmooth == InitSmooth /\ [][NextSmooth]_vars
====
